---- MODULE Spec2Model ----
(***************************************************************************)
(* The file resource of resource/file.go: a declaration is turned into a   *)
(* FileResource by NewFileResource, and Evaluate / Create / Delete /       *)
(* Update are called on it against a filesystem.                           *)
(*                                                                         *)
(* The filesystem is a function from paths to what os.Stat observes there: *)
(* nothing (ENOENT), a stat failure other than ENOENT ("denied": what lies *)
(* behind it cannot be observed), a regular file, a directory, or another  *)
(* type (a FIFO), with permission bits, numeric owner and group, content.  *)
(***************************************************************************)
EXTENDS Integers, Sequences, FiniteSets, TLC

\* ---------------------------------------------------------------- values

StatePresent == "present"
StateAbsent == "absent"
StateUnknown == "unknown"

Nil == "nil"
ENOENT == "ENOENT"
EACCES == "EACCES"
EISDIR == "EISDIR"
EPERM == "EPERM"
ErrNotFile == "exists, but is not a file"
ErrLookup == "unknown user or group"
Panic == "panic: nil pointer dereference"

Title == "/tmp/a"
OtherPath == "/tmp/b"
SiteDir == "/site"
SourceName == "motd"

\* filepath.Join(siteDir, "data", source)
JoinData(siteDir, source) == siteDir \o "/data/" \o source

Paths == {Title, OtherPath, JoinData(SiteDir, SourceName)}

\* ------------------------------------------------- os.FileMode arithmetic

\* os.FileMode(m) for an int m: conversion to uint32, i.e. m modulo 2^32,
\* computed on the two 16-bit halves of m.
FileMode(m) == (m % 65536) + 65536 * ((m \div 65536) % 65536)

\* FileMode.Perm(): the low nine bits.
Perm(m) == m % 512

\* Bit b of the FileMode m.
HasBit(m, b) == (m \div (2 ^ b)) % 2 = 1

\* The mode os.Chmod hands to chmod(2): the permission bits, and the setuid,
\* setgid and sticky bits only where the FileMode has ModeSetuid (1<<23),
\* ModeSetgid (1<<22), ModeSticky (1<<20).  Bits 9..11 of the FileMode itself
\* are dropped.
SyscallMode(m) ==
    Perm(m) + (IF HasBit(m, 23) THEN 2048 ELSE 0)
            + (IF HasBit(m, 22) THEN 1024 ELSE 0)
            + (IF HasBit(m, 20) THEN 512 ELSE 0)

\* The process umask, applied by os.Create's open(2) with mode 0666.
Umask == 18

CreateMode == 438 - Umask

\* ------------------------------------------------------- users and groups

\* The process runs as root:root (user.Current, user.LookupGroupId).
CurrentUid == 0
CurrentGid == 0

UserNames == {"root", "alice"}
GroupNames == {"root", "staff"}

UidOf(name) == IF name = "root" THEN 0 ELSE 1000
GidOf(name) == IF name = "root" THEN 0 ELSE 50

KnownUids == {UidOf(n) : n \in UserNames}
KnownGids == {GidOf(n) : n \in GroupNames}

UserOfUid(uid) == CHOOSE n \in UserNames : UidOf(n) = uid
GroupOfGid(gid) == CHOOSE n \in GroupNames : GidOf(n) = gid

\* A uid with no passwd entry.
OrphanUid == 4242

\* --------------------------------------------------------------- contents

Md5(content) == <<"md5", content>>

\* ------------------------------------------------------------- filesystem

NoFile == [kind |-> "absent", mode |-> 0, uid |-> 0, gid |-> 0, content |-> ""]
Denied == [kind |-> "denied", mode |-> 0, uid |-> 0, gid |-> 0, content |-> ""]

\* os.Stat(path): ENOENT, another error, or a FileInfo.
Stat(f, path) ==
    IF f[path].kind = "absent" THEN [err |-> ENOENT, fi |-> NoFile]
    ELSE IF f[path].kind = "denied" THEN [err |-> EACCES, fi |-> NoFile]
    ELSE [err |-> Nil, fi |-> f[path]]

\* Mutant of IsNotExist: no error counts as "does not exist".
IsNotExistNever(err) == FALSE

\* os.IsNotExist(err)
IsNotExist(err) == err = ENOENT

\* Mutant of IsDir: the directory check never fires.
IsDirNever(fi) == FALSE

\* fi.IsDir()
IsDir(fi) == fi.kind = "dir"

\* fileOwner(fi): the names of the owning user and group of fi.
fileOwner(fi) ==
    IF fi.uid \in KnownUids /\ fi.gid \in KnownGids
    THEN [err |-> Nil, User |-> UserOfUid(fi.uid), Group |-> GroupOfGid(fi.gid)]
    ELSE [err |-> ErrLookup, User |-> "", Group |-> ""]

\* os.Create(path): open(2) with O_RDWR|O_CREATE|O_TRUNC and mode 0666.
OsCreate(f, path, fault) ==
    LET k == f[path].kind IN
    IF fault = "create" \/ k = "denied" THEN [err |-> EACCES, fs |-> f]
    ELSE IF k = "dir" THEN [err |-> EISDIR, fs |-> f]
    ELSE IF k = "absent"
         THEN [err |-> Nil,
               fs |-> [f EXCEPT ![path] =
                          [kind |-> "file", mode |-> CreateMode,
                           uid |-> CurrentUid, gid |-> CurrentGid,
                           content |-> ""]]]
    ELSE IF k = "file"
         THEN [err |-> Nil, fs |-> [f EXCEPT ![path].content = ""]]
    ELSE [err |-> Nil, fs |-> f]

\* os.Chmod(path, mode)
OsChmod(f, path, mode, fault) ==
    LET k == f[path].kind IN
    IF k = "absent" THEN [err |-> ENOENT, fs |-> f]
    ELSE IF k = "denied" THEN [err |-> EACCES, fs |-> f]
    ELSE IF fault = "chmod" THEN [err |-> EPERM, fs |-> f]
    ELSE [err |-> Nil, fs |-> [f EXCEPT ![path].mode = SyscallMode(mode)]]

\* os.Remove(path): unlink(2), or rmdir(2) for a directory.  A directory that
\* is not empty is the "remove" fault.
OsRemove(f, path, fault) ==
    LET k == f[path].kind IN
    IF k = "absent" THEN [err |-> ENOENT, fs |-> f]
    ELSE IF k = "denied" THEN [err |-> EACCES, fs |-> f]
    ELSE IF fault = "remove" THEN [err |-> EPERM, fs |-> f]
    ELSE [err |-> Nil, fs |-> [f EXCEPT ![path] = NoFile]]

\* setFileOwner(path, owner, group): resolve the names, then chown.
setFileOwner(f, path, owner, group, fault) ==
    LET k == f[path].kind IN
    IF owner \notin UserNames \/ group \notin GroupNames
    THEN [err |-> ErrLookup, fs |-> f]
    ELSE IF k = "absent" THEN [err |-> ENOENT, fs |-> f]
    ELSE IF k = "denied" THEN [err |-> EACCES, fs |-> f]
    ELSE IF fault = "chown" THEN [err |-> EPERM, fs |-> f]
    ELSE [err |-> Nil,
          fs |-> [f EXCEPT ![path].uid = UidOf(owner),
                           ![path].gid = GidOf(group)]]

\* FileUtil.Md5(): the digest of the content of a readable regular file.
FileMd5(f, path) ==
    IF f[path].kind = "file" THEN [err |-> Nil, sum |-> Md5(f[path].content)]
    ELSE [err |-> IF f[path].kind = "absent" THEN ENOENT ELSE EACCES,
          sum |-> Md5("")]

\* ------------------------------------------------------------ construction

DefaultMode == 420

\* hcl.DecodeObject: a field the declaration omits keeps its zero value.
Decode(field, zero) == IF field = <<>> THEN zero ELSE field[1]

\* mergo.Merge on one field: the destination keeps its value unless that
\* value is the zero value of its type.
Merge(dst, src, zero) == IF dst = zero THEN src ELSE dst

NewFileResource(title, decl) ==
    LET defaultOwner == UserOfUid(CurrentUid)
        defaultGroup == GroupOfGid(CurrentGid)
    IN [Title |-> title,
        Type |-> "file",
        State |-> Merge(Decode(decl.state, ""), StatePresent, ""),
        Path |-> Merge(Decode(decl.path, ""), title, ""),
        Mode |-> Merge(Decode(decl.mode, 0), DefaultMode, 0),
        Owner |-> Merge(Decode(decl.owner, ""), defaultOwner, ""),
        Group |-> Merge(Decode(decl.group, ""), defaultGroup, ""),
        Source |-> Decode(decl.source, "")]

\* --------------------------------------------------------------- comparators

\* BaseFileResource.contentChanged(siteDir)
contentChanged(r, f, siteDir) ==
    IF r.Source = "" THEN [changed |-> FALSE, err |-> Nil]
    ELSE LET src == FileMd5(f, JoinData(siteDir, r.Source))
             dst == FileMd5(f, r.Path)
         IN IF src.err # Nil THEN [changed |-> FALSE, err |-> src.err]
            ELSE IF dst.err # Nil THEN [changed |-> FALSE, err |-> dst.err]
            ELSE [changed |-> src.sum # dst.sum, err |-> Nil]

\* ---------------------------------------------------------------- operations

\* What a call returns and leaves behind: the filesystem after it, the State
\* and error it returns, the progress lines it wrote.
Ret(f, state, err, out) == [fs |-> f, state |-> state, err |-> err, out |-> out]

NoState == [Current |-> "none", Want |-> "none", Update |-> FALSE]

\* Mutant of EvaluateOp: Evaluate repairs the permission bits it finds wrong.
EvaluateOpRepairs(r, f, opts) ==
    LET resourceState == [Current |-> StateUnknown, Want |-> r.State,
                          Update |-> FALSE]
        st == Stat(f, r.Path)
    IN
    IF IsNotExist(st.err)
    THEN Ret(f, [resourceState EXCEPT !.Current = StateAbsent], Nil, <<>>)
    ELSE IF st.err # Nil THEN Ret(f, NoState, Panic, <<>>)
    ELSE
    LET present == [resourceState EXCEPT !.Current = StatePresent] IN
    IF IsDir(st.fi) THEN Ret(f, present, ErrNotFile, <<>>)
    ELSE
    LET differs == Perm(st.fi.mode) # FileMode(r.Mode)
        afterPerm == IF differs
                     THEN [present EXCEPT !.Update = TRUE] ELSE present
        g == IF differs THEN OsChmod(f, r.Path, FileMode(r.Mode), "none").fs
             ELSE f
        owner == fileOwner(st.fi)
    IN
    IF owner.err # Nil THEN Ret(g, afterPerm, owner.err, <<>>)
    ELSE IF r.Owner # owner.User \/ r.Group # owner.Group
         THEN Ret(g, [afterPerm EXCEPT !.Update = TRUE], Nil, <<>>)
         ELSE Ret(g, afterPerm, Nil, <<>>)

\* Mutant of EvaluateOp: the ownership check assigns Update instead of raising
\* it, so a permission difference is forgotten when the owner matches.
EvaluateOpOwnerOverwrites(r, f, opts) ==
    LET resourceState == [Current |-> StateUnknown, Want |-> r.State,
                          Update |-> FALSE]
        st == Stat(f, r.Path)
    IN
    IF IsNotExist(st.err)
    THEN Ret(f, [resourceState EXCEPT !.Current = StateAbsent], Nil, <<>>)
    ELSE IF st.err # Nil THEN Ret(f, NoState, Panic, <<>>)
    ELSE
    LET present == [resourceState EXCEPT !.Current = StatePresent] IN
    IF IsDir(st.fi) THEN Ret(f, present, ErrNotFile, <<>>)
    ELSE
    LET afterPerm == IF Perm(st.fi.mode) # FileMode(r.Mode)
                     THEN [present EXCEPT !.Update = TRUE] ELSE present
        owner == fileOwner(st.fi)
    IN
    IF owner.err # Nil THEN Ret(f, afterPerm, owner.err, <<>>)
    ELSE Ret(f, [afterPerm EXCEPT !.Update =
                    (r.Owner # owner.User \/ r.Group # owner.Group)],
             Nil, <<>>)

\* Mutant of EvaluateOp: an absent path that is wanted is flagged Update.
EvaluateOpAbsentUpdate(r, f, opts) ==
    LET resourceState == [Current |-> StateUnknown, Want |-> r.State,
                          Update |-> FALSE]
        st == Stat(f, r.Path)
    IN
    IF IsNotExist(st.err)
    THEN Ret(f, [resourceState EXCEPT !.Current = StateAbsent,
                                      !.Update = (r.State = StatePresent)],
             Nil, <<>>)
    ELSE IF st.err # Nil THEN Ret(f, NoState, Panic, <<>>)
    ELSE
    LET present == [resourceState EXCEPT !.Current = StatePresent] IN
    IF IsDir(st.fi) THEN Ret(f, present, ErrNotFile, <<>>)
    ELSE
    LET afterPerm == IF Perm(st.fi.mode) # FileMode(r.Mode)
                     THEN [present EXCEPT !.Update = TRUE] ELSE present
        owner == fileOwner(st.fi)
    IN
    IF owner.err # Nil THEN Ret(f, afterPerm, owner.err, <<>>)
    ELSE IF r.Owner # owner.User \/ r.Group # owner.Group
         THEN Ret(f, [afterPerm EXCEPT !.Update = TRUE], Nil, <<>>)
         ELSE Ret(f, afterPerm, Nil, <<>>)

\* FileResource.Evaluate.  When os.Stat fails with an error other than ENOENT
\* fi is nil and fi.IsDir() panics: nothing is returned.
EvaluateOp(r, f, opts) ==
    LET resourceState == [Current |-> StateUnknown, Want |-> r.State,
                          Update |-> FALSE]
        st == Stat(f, r.Path)
    IN
    IF IsNotExist(st.err)
    THEN Ret(f, [resourceState EXCEPT !.Current = StateAbsent], Nil, <<>>)
    ELSE IF st.err # Nil THEN Ret(f, NoState, Panic, <<>>)
    ELSE
    LET present == [resourceState EXCEPT !.Current = StatePresent] IN
    IF IsDir(st.fi) THEN Ret(f, present, ErrNotFile, <<>>)
    ELSE
    LET afterPerm == IF Perm(st.fi.mode) # FileMode(r.Mode)
                     THEN [present EXCEPT !.Update = TRUE] ELSE present
        owner == fileOwner(st.fi)
    IN
    IF owner.err # Nil THEN Ret(f, afterPerm, owner.err, <<>>)
    ELSE IF r.Owner # owner.User \/ r.Group # owner.Group
         THEN Ret(f, [afterPerm EXCEPT !.Update = TRUE], Nil, <<>>)
         ELSE Ret(f, afterPerm, Nil, <<>>)

\* Mutant of CreateOp: the error of setFileOwner is dropped and the chmod is
\* still done.
CreateOpIgnoresOwnerError(r, f, opts, fault) ==
    LET out == <<"creating file">>
        c == OsCreate(f, r.Path, fault)
    IN
    IF c.err # Nil THEN Ret(c.fs, NoState, c.err, out)
    ELSE
    LET o == setFileOwner(c.fs, r.Path, r.Owner, r.Group, fault)
        m == OsChmod(o.fs, r.Path, FileMode(r.Mode), fault)
    IN Ret(m.fs, NoState, m.err, out)

\* Mutant of CreateOp: the file is created at the title, not at the path.
CreateOpOnTitle(r, f, opts, fault) ==
    LET out == <<"creating file">>
        c == OsCreate(f, r.Title, fault)
    IN
    IF c.err # Nil THEN Ret(c.fs, NoState, c.err, out)
    ELSE
    LET o == setFileOwner(c.fs, r.Title, r.Owner, r.Group, fault) IN
    IF o.err # Nil THEN Ret(o.fs, NoState, o.err, out)
    ELSE
    LET m == OsChmod(o.fs, r.Title, FileMode(r.Mode), fault) IN
    Ret(m.fs, NoState, m.err, out)

\* FileResource.Create
CreateOp(r, f, opts, fault) ==
    LET out == <<"creating file">>
        c == OsCreate(f, r.Path, fault)
    IN
    IF c.err # Nil THEN Ret(c.fs, NoState, c.err, out)
    ELSE
    LET o == setFileOwner(c.fs, r.Path, r.Owner, r.Group, fault) IN
    IF o.err # Nil THEN Ret(o.fs, NoState, o.err, out)
    ELSE
    LET m == OsChmod(o.fs, r.Path, FileMode(r.Mode), fault) IN
    Ret(m.fs, NoState, m.err, out)

\* Mutant of DeleteOp: an absent path is not removed and is no error.
DeleteOpIfExists(r, f, opts, fault) ==
    LET d == OsRemove(f, r.Path, fault) IN
    IF f[r.Path].kind = "absent" THEN Ret(f, NoState, Nil, <<"removing file">>)
    ELSE Ret(d.fs, NoState, d.err, <<"removing file">>)

\* FileResource.Delete
DeleteOp(r, f, opts, fault) ==
    LET d == OsRemove(f, r.Path, fault) IN
    Ret(d.fs, NoState, d.err, <<"removing file">>)

\* Mutant of UpdateFixPermissions: the permissions are always set again.
UpdateFixPermissionsAlways(fi, r) == TRUE

\* The two repair decisions of Update.
UpdateFixPermissions(fi, r) == Perm(fi.mode) # FileMode(r.Mode)

\* Mutant of UpdateFixOwnership: the owner is always set again.
UpdateFixOwnershipAlways(owner, r) == TRUE

UpdateFixOwnership(owner, r) == r.Owner # owner.User \/ r.Group # owner.Group

\* Mutant of UpdateOp: the ownership is repaired before the permissions.
UpdateOpOwnerFirst(r, f, opts, fault) ==
    LET st == Stat(f, r.Path) IN
    IF st.err # Nil THEN Ret(f, NoState, st.err, <<>>)
    ELSE
    LET owner == fileOwner(st.fi) IN
    IF owner.err # Nil THEN Ret(f, NoState, owner.err, <<>>)
    ELSE
    LET fixOwner == UpdateFixOwnership(owner, r)
        out1 == IF fixOwner THEN <<"setting owner">> ELSE <<>>
        o == IF fixOwner
             THEN setFileOwner(f, r.Path, r.Owner, r.Group, fault)
             ELSE [err |-> Nil, fs |-> f]
    IN
    IF o.err # Nil THEN Ret(o.fs, NoState, o.err, out1)
    ELSE
    LET fixPerm == UpdateFixPermissions(st.fi, r)
        out2 == IF fixPerm THEN Append(out1, "setting permissions") ELSE out1
        m == IF fixPerm THEN OsChmod(o.fs, r.Path, FileMode(r.Mode), fault)
             ELSE [err |-> Nil, fs |-> o.fs]
    IN Ret(m.fs, NoState, m.err, out2)

\* FileResource.Update
UpdateOp(r, f, opts, fault) ==
    LET st == Stat(f, r.Path) IN
    IF st.err # Nil THEN Ret(f, NoState, st.err, <<>>)
    ELSE
    LET fixPerm == UpdateFixPermissions(st.fi, r)
        out1 == IF fixPerm THEN <<"setting permissions">> ELSE <<>>
        m == IF fixPerm THEN OsChmod(f, r.Path, FileMode(r.Mode), fault)
             ELSE [err |-> Nil, fs |-> f]
    IN
    IF m.err # Nil THEN Ret(m.fs, NoState, m.err, out1)
    ELSE
    LET owner == fileOwner(st.fi) IN
    IF owner.err # Nil THEN Ret(m.fs, NoState, owner.err, out1)
    ELSE
    LET fixOwner == UpdateFixOwnership(owner, r)
        out2 == IF fixOwner THEN Append(out1, "setting owner") ELSE out1
        o == IF fixOwner
             THEN setFileOwner(m.fs, r.Path, r.Owner, r.Group, fault)
             ELSE [err |-> Nil, fs |-> m.fs]
    IN Ret(o.fs, NoState, o.err, out2)

\* --------------------------------------------------------------- state

VARIABLES
    decl,   \* the declaration NewFileResource was given
    fr,     \* the FileResource built by NewFileResource
    fs,     \* the filesystem: what each path holds
    last    \* the last call: which, its options, the fault it met, its results

vars == <<decl, fr, fs, last>>

\* Declarations: every field is omitted (<<>>) or set (<<value>>).
\* Declared modes: omitted, zero, 0600, and the default with one of the bits
\* above the nine permission bits set (01644, 02644, ...), MaxHighModes of them.
MaxHighModes == 1

DeclModes ==
    {<<>>, <<0>>, <<384>>}
    \cup {<<DefaultMode + 512 * k>> : k \in 1..MaxHighModes}
DeclOwners == {<<>>, <<"">>, <<"alice">>, <<"ghost">>}
DeclGroups == {<<>>, <<"staff">>}
DeclSources == {<<>>, <<SourceName>>}
DeclStates == {<<>>, <<StateAbsent>>}
DeclPaths == {<<>>, <<OtherPath>>}

Decls ==
    [path : DeclPaths, mode : DeclModes, owner : DeclOwners,
     group : DeclGroups, source : DeclSources, state : DeclStates]

\* What the declared path may hold before the first call.
InitModes == {384, 420}
InitUids == {CurrentUid, OrphanUid}
InitGids == {CurrentGid, GidOf("staff")}
InitContents == {"", "a"}

InitManaged ==
    {NoFile, Denied}
    \cup [kind : {"file"}, mode : InitModes, uid : InitUids, gid : InitGids,
          content : InitContents]
    \cup [kind : {"dir", "fifo"}, mode : InitModes, uid : InitUids,
          gid : {CurrentGid}, content : {""}]

PlainFile ==
    [kind |-> "file", mode |-> DefaultMode, uid |-> CurrentUid,
     gid |-> CurrentGid, content |-> "a"]

\* The source file of the site directory: missing, or a file with content "a".
InitSource == {NoFile, PlainFile}

Faults == {"none", "create", "chown", "chmod", "remove"}

NoCall ==
    [op |-> "none", dry |-> FALSE, fault |-> "none", state |-> NoState,
     err |-> Nil, out |-> <<>>]

Init ==
    /\ decl \in Decls
    /\ fr = NewFileResource(Title, decl)
    /\ \E m \in InitManaged, s \in InitSource :
          fs = [p \in Paths |->
                  IF p = fr.Path THEN m
                  ELSE IF p = JoinData(SiteDir, SourceName) THEN s
                  ELSE PlainFile]
    /\ last = NoCall

\* The record of one call of a method of the resource, with the dry-run flag
\* of its options bundle, on a system where the step named by fault fails if
\* the call reaches it.
Called(op, res, dry, fault) ==
    [op |-> op, dry |-> dry, fault |-> fault, state |-> res.state,
     err |-> res.err, out |-> res.out]

Evaluate ==
    \E dry \in BOOLEAN :
       LET res == EvaluateOp(fr, fs, [DryRun |-> dry]) IN
       /\ fs' = res.fs
       /\ last' = Called("Evaluate", res, dry, "none")
       /\ UNCHANGED <<decl, fr>>

Create ==
    \E dry \in BOOLEAN, fault \in Faults \ {"remove"} :
       LET res == CreateOp(fr, fs, [DryRun |-> dry], fault) IN
       /\ fs' = res.fs
       /\ last' = Called("Create", res, dry, fault)
       /\ UNCHANGED <<decl, fr>>

Delete ==
    \E dry \in BOOLEAN, fault \in {"none", "remove"} :
       LET res == DeleteOp(fr, fs, [DryRun |-> dry], fault) IN
       /\ fs' = res.fs
       /\ last' = Called("Delete", res, dry, fault)
       /\ UNCHANGED <<decl, fr>>

Update ==
    \E dry \in BOOLEAN, fault \in {"none", "chmod", "chown"} :
       LET res == UpdateOp(fr, fs, [DryRun |-> dry], fault) IN
       /\ fs' = res.fs
       /\ last' = Called("Update", res, dry, fault)
       /\ UNCHANGED <<decl, fr>>

Next == Evaluate \/ Create \/ Delete \/ Update

Spec == Init /\ [][Next]_vars

\* ----------------------------------------------------------------- driver

\* The action the last Evaluate directs, if the last call was an Evaluate
\* that returned a State and no error.
Directed ==
    IF last.op # "Evaluate" \/ last.err # Nil THEN "none"
    ELSE IF last.state.Current = StateAbsent /\ last.state.Want = StatePresent
         THEN "Create"
    ELSE IF last.state.Current = StatePresent /\ last.state.Want = StateAbsent
         THEN "Delete"
    ELSE IF last.state.Current = StatePresent
            /\ last.state.Want = StatePresent /\ last.state.Update
         THEN "Update"
    ELSE "none"

NoOpts == [DryRun |-> FALSE]

DriverEvaluate ==
    /\ Directed = "none"
    /\ LET res == EvaluateOp(fr, fs, NoOpts) IN
       /\ fs' = res.fs
       /\ last' = Called("Evaluate", res, FALSE, "none")
       /\ UNCHANGED <<decl, fr>>

DriverCreate ==
    /\ Directed = "Create"
    /\ LET res == CreateOp(fr, fs, NoOpts, "none") IN
       /\ fs' = res.fs
       /\ last' = Called("Create", res, FALSE, "none")
       /\ UNCHANGED <<decl, fr>>

DriverDelete ==
    /\ Directed = "Delete"
    /\ LET res == DeleteOp(fr, fs, NoOpts, "none") IN
       /\ fs' = res.fs
       /\ last' = Called("Delete", res, FALSE, "none")
       /\ UNCHANGED <<decl, fr>>

DriverUpdate ==
    /\ Directed = "Update"
    /\ LET res == UpdateOp(fr, fs, NoOpts, "none") IN
       /\ fs' = res.fs
       /\ last' = Called("Update", res, FALSE, "none")
       /\ UNCHANGED <<decl, fr>>

DriverNext == DriverEvaluate \/ DriverCreate \/ DriverDelete \/ DriverUpdate

DriverSpec == Init /\ [][DriverNext]_vars /\ WF_vars(DriverNext)

\* ------------------------------------------------------------- properties

\* The State a successful Evaluate returns for a present path.
Reported(update) ==
    [Current |-> StatePresent, Want |-> StatePresent, Update |-> update]

\* What an Evaluate called in the current state returns.
EvalNow == EvaluateOp(fr, fs, NoOpts)

AttributesMatch(r, fi) ==
    /\ Perm(fi.mode) = FileMode(r.Mode)
    /\ fileOwner(fi).err = Nil
    /\ fileOwner(fi).User = r.Owner
    /\ fileOwner(fi).Group = r.Group

\* C1: whenever Create is called on an absent path and returns no error, the
\* next Evaluate returns Current=Present and Update=false with no error, for
\* every declared Mode, Owner and Group.
C1_CreateConverges ==
    [][(/\ fs[fr.Path].kind = "absent"
        /\ last'.op = "Create"
        /\ last'.err = Nil)
       => LET e == EvaluateOp(fr', fs', NoOpts) IN
          /\ e.err = Nil
          /\ e.state.Current = StatePresent
          /\ ~e.state.Update]_vars

\* C2: whenever Evaluate returned {Present, Present, Update=true} for a regular
\* file and the Update that follows returns no error, a re-Evaluate returns
\* Update=false, for every declared Mode, Owner and Group.
C2_UpdateConverges ==
    [][(/\ fs[fr.Path].kind = "file"
        /\ last.op = "Evaluate"
        /\ last.err = Nil
        /\ last.state = Reported(TRUE)
        /\ last'.op = "Update"
        /\ last'.err = Nil)
       => ~EvaluateOp(fr', fs', NoOpts).state.Update]_vars

\* C3: in a state for which Evaluate reports {Present, Present, Update=false}
\* and no error, a call of Update changes nothing in the filesystem, writes
\* no progress line and returns no error; the state after it is again such a
\* state, so this holds of any number of Update calls.
C3_UpdateIdempotent ==
    [][(/\ EvalNow.err = Nil
        /\ EvalNow.state = Reported(FALSE)
        /\ last'.op = "Update")
       => /\ fs' = fs
          /\ last'.out = <<>>
          /\ last'.err = Nil]_vars

C3_Witness ==
    /\ last.op = "Update"
    /\ last.fault = "chmod"
    /\ last.err = Nil
    /\ last.out = <<>>
    /\ EvalNow.err = Nil
    /\ EvalNow.state = Reported(FALSE)

\* C4: a call of Evaluate, whatever it returns, leaves every path of the
\* filesystem and the declared fields of the resource as they were, and an
\* Evaluate that follows an Evaluate returns the same State and error.
C4_EvaluateReadOnly ==
    [][last'.op = "Evaluate"
       => /\ fs' = fs
          /\ fr' = fr
          /\ (last.op = "Evaluate"
                => last'.state = last.state /\ last'.err = last.err)]_vars

C4_Witness ==
    /\ last.op = "Evaluate"
    /\ last.dry
    /\ last.err = Nil
    /\ last.state = Reported(TRUE)
    /\ fs[fr.Path].kind = "file"

\* The driver has converged: the last call is an Evaluate that returned no
\* error and Current = Want, and it directs no action.
Converged ==
    /\ last.op = "Evaluate"
    /\ last.err = Nil
    /\ last.state.Current = last.state.Want
    /\ Directed = "none"

\* The initial states of C5: the path is absent or a regular file, and every
\* user and group name or id involved can be resolved.
C5_Start ==
    /\ fs[fr.Path].kind \in {"absent", "file"}
    /\ fr.Owner \in UserNames
    /\ fr.Group \in GroupNames
    /\ fs[fr.Path].uid \in KnownUids
    /\ fs[fr.Path].gid \in KnownGids

\* C5: the driver that calls Evaluate and then the action it directs, started
\* with the path absent or a regular file and meeting no OS failure, reaches a
\* state where Evaluate returns Current = Want and directs no action, and
\* stays there.
C5_DriverConverges == C5_Start => <>[]Converged

\* C6: a Create, Update or Delete called with the dry-run option set leaves
\* the filesystem unchanged.
C6_DryRunNoMutation ==
    [][(last'.dry /\ last'.op \in {"Create", "Update", "Delete"})
       => fs' = fs]_vars

\* C7: Evaluate of a regular file whose resource has Source set, whose content
\* differs from the source's and whose mode, owner and group all match,
\* returns Update=true.
C7_EvaluateSeesContent ==
    (/\ last.op = "Evaluate"
     /\ fs[fr.Path].kind = "file"
     /\ fr.Source # ""
     /\ contentChanged(fr, fs, SiteDir) = [changed |-> TRUE, err |-> Nil]
     /\ AttributesMatch(fr, fs[fr.Path]))
    => last.state.Update

\* C8: Evaluate of a path that exists and is not a regular file (a directory,
\* a FIFO, ...) returns an error together with Current=Present.
C8_NonRegularIsError ==
    (/\ last.op = "Evaluate"
     /\ fs[fr.Path].kind \in {"dir", "fifo"})
    => /\ last.err # Nil
       /\ last.state.Current = StatePresent

\* C9: Evaluate of a path that is a directory returns the not-a-file error
\* and the State {Present, Want, Update=false}, whatever the directory's
\* mode and owner: the attributes are not compared.
C9_DirectoryGuard ==
    (/\ last.op = "Evaluate"
     /\ fs[fr.Path].kind = "dir")
    => /\ last.err = ErrNotFile
       /\ last.state = [Current |-> StatePresent, Want |-> fr.State,
                        Update |-> FALSE]

C9_Witness ==
    /\ last.op = "Evaluate"
    /\ fs[fr.Path].kind = "dir"
    /\ Perm(fs[fr.Path].mode) # FileMode(fr.Mode)
    /\ fs[fr.Path].uid = OrphanUid
    /\ last.err = ErrNotFile

\* C10: Evaluate of a path that does not exist returns exactly
\* {Absent, Want, Update=false} and no error, for every declared state, Mode,
\* Owner and Group.
C10_AbsentIsResult ==
    (/\ last.op = "Evaluate"
     /\ fs[fr.Path].kind = "absent")
    => /\ last.err = Nil
       /\ last.state = [Current |-> StateAbsent, Want |-> fr.State,
                        Update |-> FALSE]

C10_Witness ==
    /\ last.op = "Evaluate"
    /\ fs[fr.Path].kind = "absent"
    /\ fr.State = StateAbsent
    /\ fr.Owner = "ghost"
    /\ last.state.Current = StateAbsent
    /\ last.err = Nil

\* What os.Stat finds at the declared path.
Managed == fs[fr.Path]

\* C11: Evaluate of a regular file whose owner can be resolved returns no
\* error and Update=true exactly when the permission bits are not equal to
\* the declared Mode or the owner name or the group name differs from the
\* declared one.
C11_AttributeComparison ==
    (/\ last.op = "Evaluate"
     /\ Managed.kind = "file"
     /\ fileOwner(Managed).err = Nil)
    => /\ last.err = Nil
       /\ last.state.Update = (\/ Perm(Managed.mode) # fr.Mode
                               \/ fileOwner(Managed).User # fr.Owner
                               \/ fileOwner(Managed).Group # fr.Group)

C11_Witness ==
    /\ last.op = "Evaluate"
    /\ Managed.kind = "file"
    /\ Managed.mode = 384
    /\ fr.Mode = DefaultMode
    /\ fileOwner(Managed).err = Nil
    /\ fileOwner(Managed).User = fr.Owner
    /\ fileOwner(Managed).Group = fr.Group
    /\ last.state.Update

\* C12 as claimed: in every State Evaluate returns, Update=true implies
\* Current = Want.
C12_UpdateImpliesCurrentIsWant ==
    (last.op = "Evaluate" /\ last.state.Update)
    => last.state.Current = last.state.Want

\* C12, amended: in every State Evaluate returns, with or without an error,
\* Update=true implies Current=Present, whatever Want is.
C12_UpdateImpliesPresent ==
    (last.op = "Evaluate" /\ last.state.Update)
    => last.state.Current = StatePresent

C12_Witness ==
    /\ last.op = "Evaluate"
    /\ last.err = Nil
    /\ last.state.Update
    /\ last.state.Current = StatePresent
    /\ last.state.Want = StateAbsent

\* The value the claim gives a field: the declared one if the declaration
\* sets the field, the baseline otherwise.
DeclaredOr(field, baseline) == IF field = <<>> THEN baseline ELSE field[1]

\* C13: every field of the resource NewFileResource builds is the declared
\* value where the declaration sets it, also to its zero value, and the
\* baseline (Path = title, Mode = 0644, owner and group of the process, state
\* Present) where it omits it.
C13_DefaultingKeepsDeclared ==
    /\ fr.Path = DeclaredOr(decl.path, Title)
    /\ fr.Mode = DeclaredOr(decl.mode, DefaultMode)
    /\ fr.Owner = DeclaredOr(decl.owner, UserOfUid(CurrentUid))
    /\ fr.Group = DeclaredOr(decl.group, GroupOfGid(CurrentGid))
    /\ fr.State = DeclaredOr(decl.state, StatePresent)

\* C14: Evaluate of a regular file returns an error when the owner or group
\* of the file, or the declared Owner or Group name, cannot be resolved.
C14_LookupFailureIsError ==
    (/\ last.op = "Evaluate"
     /\ Managed.kind = "file"
     /\ \/ fileOwner(Managed).err # Nil
        \/ fr.Owner \notin UserNames
        \/ fr.Group \notin GroupNames)
    => last.err # Nil

\* The file a successful os.Create leaves at an absent path.
FreshFile ==
    [kind |-> "file", mode |-> CreateMode, uid |-> CurrentUid,
     gid |-> CurrentGid, content |-> ""]

Resolvable(r) == r.Owner \in UserNames /\ r.Group \in GroupNames

\* os.Stat of the declared path succeeds.
StatOk == Managed.kind \notin {"absent", "denied"}

PermDiffers == Perm(Managed.mode) # fr.Mode

OwnerDiffers ==
    /\ fileOwner(Managed).err = Nil
    /\ \/ fileOwner(Managed).User # fr.Owner
       \/ fileOwner(Managed).Group # fr.Group

HasLine(out, line) == \E i \in 1..Len(out) : out[i] = line

\* C15: the step of Create (create, set owner, chmod) or Update (chmod, set
\* owner) that fails ends the call with its error, no later step is done and
\* the steps before it stay applied.
C15_FailFastNoRollback ==
    [][/\ (last'.op = "Create" /\ last'.fault = "create")
            => last'.err = EACCES /\ fs' = fs
       /\ (last'.op = "Create" /\ Managed.kind = "absent"
             /\ last'.fault # "create" /\ ~Resolvable(fr))
            => last'.err = ErrLookup /\ fs'[fr.Path] = FreshFile
       /\ (last'.op = "Create" /\ Managed.kind = "absent"
             /\ last'.fault = "chown" /\ Resolvable(fr))
            => last'.err = EPERM /\ fs'[fr.Path] = FreshFile
       /\ (last'.op = "Create" /\ Managed.kind = "absent"
             /\ last'.fault = "chmod" /\ Resolvable(fr))
            => /\ last'.err = EPERM
               /\ fs'[fr.Path] = [FreshFile EXCEPT !.uid = UidOf(fr.Owner),
                                                   !.gid = GidOf(fr.Group)]
       /\ (last'.op = "Update" /\ StatOk /\ PermDiffers
             /\ last'.fault = "chmod")
            => last'.err = EPERM /\ fs' = fs
       /\ (last'.op = "Update" /\ StatOk /\ PermDiffers /\ OwnerDiffers
             /\ Resolvable(fr) /\ last'.fault = "chown")
            => /\ last'.err = EPERM
               /\ fs'[fr.Path] = [Managed EXCEPT !.mode = Perm(fr.Mode)]
      ]_vars

C15_Witness ==
    /\ last.op = "Create"
    /\ last.fault = "chown"
    /\ last.err = EPERM
    /\ Managed = FreshFile
    /\ fr.Mode = 384
    /\ fr.Owner = "alice"

\* C16: in an Update that finds both the permissions and the ownership
\* different, the permission line and chmod come before the ownership line
\* and chown: the owner is never changed while the permissions still differ.
C16_PermissionsBeforeOwnership ==
    [][(last'.op = "Update" /\ StatOk /\ PermDiffers /\ OwnerDiffers)
       => /\ Len(last'.out) > 0
          /\ Head(last'.out) = "setting permissions"
          /\ HasLine(last'.out, "setting owner")
               => last'.out = <<"setting permissions", "setting owner">>
          /\ (\/ fs'[fr.Path].uid # Managed.uid
              \/ fs'[fr.Path].gid # Managed.gid
              \/ HasLine(last'.out, "setting owner"))
               => Perm(fs'[fr.Path].mode) = Perm(fr.Mode)
      ]_vars

C16_Witness ==
    /\ last.op = "Update"
    /\ last.fault = "chown"
    /\ last.err = EPERM
    /\ last.out = <<"setting permissions", "setting owner">>
    /\ Perm(Managed.mode) = Perm(fr.Mode)
    /\ fileOwner(Managed).err = Nil
    /\ fileOwner(Managed).User # fr.Owner

\* C17: Update writes the permission line and chmods exactly when the
\* permission bits differ from the declared Mode, and sets the owner only
\* when the owner or group differs, and then always unless an earlier step of
\* the call failed; an attribute that matches is not touched, and the type
\* and content of the file and every other path stay as they were.
C17_AttributeGranularRepair ==
    [][last'.op = "Update"
       => /\ \A p \in Paths \ {fr.Path} : fs'[p] = fs[p]
          /\ fs'[fr.Path].kind = Managed.kind
          /\ fs'[fr.Path].content = Managed.content
          /\ ~StatOk => fs' = fs /\ last'.out = <<>>
          /\ StatOk =>
               /\ HasLine(last'.out, "setting permissions") <=> PermDiffers
               /\ ~PermDiffers => fs'[fr.Path].mode = Managed.mode
               /\ HasLine(last'.out, "setting owner") => OwnerDiffers
               /\ ~HasLine(last'.out, "setting owner")
                    => /\ fs'[fr.Path].uid = Managed.uid
                       /\ fs'[fr.Path].gid = Managed.gid
               /\ last'.err = Nil
                    => /\ HasLine(last'.out, "setting owner") <=> OwnerDiffers
                       /\ Perm(fs'[fr.Path].mode) = Perm(fr.Mode)
                       /\ fileOwner(fs'[fr.Path]).User = fr.Owner
                       /\ fileOwner(fs'[fr.Path]).Group = fr.Group
      ]_vars

C17_Witness ==
    /\ last.op = "Update"
    /\ last.err = Nil
    /\ last.out = <<"setting owner">>
    /\ Managed.kind = "file"
    /\ Managed.content = "a"
    /\ Managed.mode = 384
    /\ fr.Owner = "alice"

\* C18: Delete removes without looking: on an absent path it returns the
\* not-found error and changes nothing; on a regular file, when the removal
\* itself does not fail, it returns no error and the next Evaluate returns
\* Current=Absent and no error.
C18_DeleteUnconditional ==
    [][last'.op = "Delete"
       => /\ Managed.kind = "absent" => last'.err = ENOENT /\ fs' = fs
          /\ (Managed.kind = "file" /\ last'.fault = "none")
               => /\ last'.err = Nil
                  /\ fs' = [fs EXCEPT ![fr.Path] = NoFile]
                  /\ EvaluateOp(fr', fs', NoOpts).err = Nil
                  /\ EvaluateOp(fr', fs', NoOpts).state.Current = StateAbsent
      ]_vars

C18_Witness ==
    /\ last.op = "Delete"
    /\ last.err = ENOENT
    /\ Managed.kind = "absent"

\* C19: every call of Evaluate returns, and the State it returns has Current
\* Absent or Present, whatever os.Stat answers.
C19_EvaluateAlwaysReturns ==
    last.op = "Evaluate"
    => /\ last.err # Panic
       /\ last.state.Current \in {StateAbsent, StatePresent}

\* C20: no call changes the declaration or a field of the resource, no call
\* touches a path other than the resource's Path, and every State Evaluate
\* returns has Want equal to the declared state.
C20_DeclarationImmutable ==
    [][/\ fr' = fr
       /\ decl' = decl
       /\ \A p \in Paths \ {fr.Path} : fs'[p] = fs[p]
       /\ (last'.op = "Evaluate" /\ last'.err # Panic)
            => last'.state.Want = fr.State
      ]_vars

C20_Witness ==
    /\ fr.Path = OtherPath
    /\ fr.State = StateAbsent
    /\ last.op = "Create"
    /\ last.err = Nil
    /\ Managed.kind = "file"
    /\ fs[Title] = PlainFile

====
